---- MODULE Spec2Model ----
(***************************************************************************)
(* Model of the variable resolution engine of command-snippets             *)
(* (package models): Snippet.ProcessTemplate and Snippet.processVariable.  *)
(*                                                                         *)
(* A Go string is a sequence of one-character strings.  A template text    *)
(* (value_pattern, compose) is such a sequence in which a text/template    *)
(* action "{{...}}" is one element.  A Go pointer is a sequence of length  *)
(* 0 (nil) or 1 (the pointee); a Go map is a function on its key set.      *)
(***************************************************************************)
EXTENDS Integers, Sequences, FiniteSets, TLC

VARIABLES snippet, values, config, pc, i, command, processedValue, result, err,
          checked, input, vconfig, call, verr,
          kept, firstReturn, calls,
          fields, focusIndex, done, cancelled, window, msg,
          xpc, ask, rejected, mode, confirm, printed, executed, ret

\* the variable, the value and the *Config of one validation call, the
\* method called and the error it returned
valVars == <<checked, input, vconfig, call, verr>>

\* a caller that calls ProcessTemplate again and again: the raw-value map of
\* its first call, what that call returned, and the number of the call
repVars == <<kept, firstReturn, calls>>

\* the formModel: its fields, the index of the focused field, done,
\* cancelled, width and height, and the message Update handled last
formVars == <<fields, focusIndex, done, cancelled, window, msg>>

\* ExecuteWithMode: its position, the index of the variable being asked
\* for, the number of answers rejected so far, the mode, the answer to
\* "Execute this command?", what was printed, what was executed, and the
\* error returned
execVars == <<xpc, ask, rejected, mode, confirm, printed, executed, ret>>

\* what ProcessTemplate, Validate and ValidateWithConfig have no access to
extVars == <<repVars, formVars, execVars>>

\* the parameters, locals and results of ProcessTemplate
ptVars == <<snippet, values, config, pc, i, command, processedValue, result, err>>

vars == <<snippet, values, config, pc, i, command, processedValue, result, err,
          valVars, extVars>>

\* Largest number of ProcessTemplate calls of one caller.
MaxCalls == 3

\* Largest length a field value is typed to.
MaxLen == 1

\* Largest number of answers that are rejected in one run.
MaxRejected == 2

\* Largest number of variables of a snippet with several variables.
MaxVars == 2

----------------------------------------------------------------------------
\* Pointers and strings

Nil == <<>>

Ptr(x) == <<x>>

Deref(p) == p[1]

\* strings.Index: offset of the first occurrence of old in s, -1 if none
Index(s, old) ==
  LET hits == {j \in 0..(Len(s) - Len(old)) : SubSeq(s, j + 1, j + Len(old)) = old}
  IN  IF hits = {} THEN -1 ELSE CHOOSE j \in hits : \A k \in hits : j <= k

RECURSIVE ReplaceFrom(_, _, _)
ReplaceFrom(s, old, new) ==
  LET j == Index(s, old)
  IN  IF j = -1
        THEN s
        ELSE SubSeq(s, 1, j) \o new
               \o ReplaceFrom(SubSeq(s, j + Len(old) + 1, Len(s)), old, new)

\* A plausible slip: only the first occurrence is replaced (strings.Replace n=1)
ReplaceFirst(s, old, new) ==
  LET j == Index(s, old)
  IN  IF j = -1
        THEN s
        ELSE SubSeq(s, 1, j) \o new \o SubSeq(s, j + Len(old) + 1, Len(s))

\* strings.ReplaceAll(s, old, new) for a non-empty old
ReplaceAll(s, old, new) ==
  IF old = new THEN s ELSE ReplaceFrom(s, old, new)

\* fmt.Sprintf("<%s>", name)
Placeholder(name) == <<"<">> \o name \o <<">">>

\* values[name] of a map[string]string: the zero value "" for an absent key,
\* and for every key of a nil map
MapGet(m, name) ==
  IF m = Nil THEN <<>>
  ELSE IF name \in DOMAIN Deref(m) THEN Deref(m)[name] ELSE <<>>

----------------------------------------------------------------------------
\* text/template as used by processVariable: Parse, then Execute on a
\* map[string]string

FieldOf ==
  [tok \in {"{{.Value}}", "{{.a}}", "{{.b}}", "{{if .Value}}", "{{if .a}}", "{{if .b}}"} |->
     CASE tok \in {"{{.Value}}", "{{if .Value}}"} -> <<"V", "a", "l", "u", "e">>
       [] tok \in {"{{.a}}", "{{if .a}}"} -> <<"a">>
       [] tok \in {"{{.b}}", "{{if .b}}"} -> <<"b">>]

FieldTokens == {"{{.Value}}", "{{.a}}", "{{.b}}"}

IfTokens == {"{{if .Value}}", "{{if .a}}", "{{if .b}}"}

\* an action left open: template.Parse fails ("unclosed action")
UnclosedToken == "{{"

\* a field of a string value: template.Execute fails
\* ("can't evaluate field x in type string")
BadFieldToken == "{{.a.x}}"

RECURSIVE ParseWalk(_, _, _)
ParseWalk(t, k, stack) ==
  IF k > Len(t) THEN stack = <<>>
  ELSE IF t[k] = UnclosedToken THEN FALSE
  ELSE IF t[k] \in IfTokens THEN ParseWalk(t, k + 1, Append(stack, "if"))
  ELSE IF t[k] = "{{else}}"
    THEN /\ stack # <<>>
         /\ stack[Len(stack)] = "if"
         /\ ParseWalk(t, k + 1, [stack EXCEPT ![Len(stack)] = "else"])
  ELSE IF t[k] = "{{end}}"
    THEN /\ stack # <<>>
         /\ ParseWalk(t, k + 1, SubSeq(stack, 1, Len(stack) - 1))
  ELSE ParseWalk(t, k + 1, stack)

\* template.New(...).Parse(text) returns no error
TemplateParses(t) == ParseWalk(t, 1, <<>>)

RECURSIVE ExecWalk(_, _, _, _, _)
ExecWalk(t, data, k, stack, out) ==
  LET live == \A j \in 1..Len(stack) : stack[j] IN
  IF k > Len(t) THEN [err |-> "", out |-> out]
  ELSE IF t[k] \in IfTokens
    THEN ExecWalk(t, data, k + 1, Append(stack, MapGet(data, FieldOf[t[k]]) # <<>>), out)
  ELSE IF t[k] = "{{else}}"
    THEN ExecWalk(t, data, k + 1, [stack EXCEPT ![Len(stack)] = ~stack[Len(stack)]], out)
  ELSE IF t[k] = "{{end}}"
    THEN ExecWalk(t, data, k + 1, SubSeq(stack, 1, Len(stack) - 1), out)
  ELSE IF ~live THEN ExecWalk(t, data, k + 1, stack, out)
  ELSE IF t[k] = BadFieldToken THEN [err |-> "template exec", out |-> <<>>]
  ELSE IF t[k] \in FieldTokens
    THEN ExecWalk(t, data, k + 1, stack, out \o MapGet(data, FieldOf[t[k]]))
  ELSE ExecWalk(t, data, k + 1, stack, Append(out, t[k]))

\* Parse followed by Execute into a strings.Builder: (buf.String(), err)
RenderTemplate(t, data) ==
  IF ~TemplateParses(t) THEN [err |-> "template parse", out |-> <<>>]
  ELSE ExecWalk(t, data, 1, <<>>, <<>>)

----------------------------------------------------------------------------
\* processVariable

sTrue == <<"t", "r", "u", "e">>

sYes == <<"y", "e", "s">>

sOne == <<"1">>

sValue == <<"V", "a", "l", "u", "e">>

\* A plausible slip: truthiness compared case-insensitively
IsTruthyAnyCase(value) ==
  value \in {sTrue, sYes, sOne, <<"T", "r", "u", "e">>}

\* value == "true" || value == "yes" || value == "1"
IsTruthy(value) == value \in {sTrue, sYes, sOne}

\* A plausible slip: a missing named template falls back to the inline transform
ResolveTransformFallback(variable, cfg) ==
  IF /\ variable.TransformTemplate # ""
     /\ variable.TransformTemplate \in DOMAIN cfg.TransformTemplates
    THEN [err |-> "", transform |-> cfg.TransformTemplates[variable.TransformTemplate].Transform]
    ELSE [err |-> "", transform |-> variable.Transform]

\* "Determine which transform to use": the named template when a name is
\* given (an error when it is not defined), else the inline transform, else nil
ResolveTransform(variable, cfg) ==
  IF variable.TransformTemplate # ""
    THEN IF variable.TransformTemplate \in DOMAIN cfg.TransformTemplates
           THEN [err |-> "",
                 transform |-> cfg.TransformTemplates[variable.TransformTemplate].Transform]
           ELSE [err |-> "transform template not found", transform |-> Nil]
    ELSE IF variable.Transform # Nil
           THEN [err |-> "", transform |-> variable.Transform]
           ELSE [err |-> "", transform |-> Nil]

\* A plausible slip: the pattern sees the value under the variable's own name
PatternDataByName(variable, value) == Ptr([k \in {variable.Name} |-> value])

\* data := map[string]string{"Value": value}
PatternData(variable, value) == Ptr([k \in {sValue} |-> value])

\* A plausible slip: compose sees defaults where the caller gave no value
ComposeDataWithDefaults(s, variable, allValues) ==
  Ptr([n \in {s.Variables[k].Name : k \in 1..Len(s.Variables)}
         \cup (IF allValues = Nil THEN {} ELSE DOMAIN Deref(allValues)) |->
       IF MapGet(allValues, n) # <<>> THEN MapGet(allValues, n)
       ELSE LET ks == {k \in 1..Len(s.Variables) : s.Variables[k].Name = n}
            IN  IF ks = {} THEN <<>>
                ELSE s.Variables[CHOOSE k \in ks : TRUE].DefaultValue])

\* A plausible slip: compose sees only the variables declared before its own
ComposeDataDeclaredBefore(s, variable, allValues) ==
  LET own == {k \in 1..Len(s.Variables) : s.Variables[k] = variable}
      first == CHOOSE k \in own : \A j \in own : k <= j
      before == {s.Variables[k].Name : k \in 1..(first - 1)}
  IN  IF allValues = Nil THEN Nil
      ELSE Ptr([n \in DOMAIN Deref(allValues) \cap before |-> Deref(allValues)[n]])

\* tmpl.Execute(&buf, allValues): the data of compose is the caller's map itself
ComposeData(s, variable, allValues) == allValues

\* A plausible slip: the default also backs an empty raw value of a boolean
BooleanValueOrDefault(variable, transform, value) ==
  IF IsTruthy(value) THEN transform.TrueValue
  ELSE IF value = <<>> /\ variable.DefaultValue # <<>> THEN variable.DefaultValue
  ELSE transform.FalseValue

\* "Boolean transformations"
BooleanValue(variable, transform, value) ==
  IF IsTruthy(value) THEN transform.TrueValue ELSE transform.FalseValue

\* A plausible slip: the default backs an empty raw value only when the
\* variable has no transform
DefaultOrRawNoTransform(variable, transform, value) ==
  IF value = <<>>
    THEN IF transform = Nil THEN variable.DefaultValue ELSE <<>>
    ELSE value

\* A plausible slip: the default is never used
RawOnly(variable, transform, value) == value

\* A plausible slip: a boolean without transform resolves to nothing
DefaultOrRawBooleanEmpty(variable, transform, value) ==
  IF variable.Type = "boolean" THEN <<>>
  ELSE IF value = <<>> THEN variable.DefaultValue ELSE value

\* A plausible slip: a default that is set wins over the raw value
DefaultOverRaw(variable, transform, value) ==
  IF variable.DefaultValue # <<>> THEN variable.DefaultValue ELSE value

\* A plausible slip: a computed variable never takes its raw value or default
DefaultOrRawNotComputed(variable, transform, value) ==
  IF variable.Computed THEN <<>>
  ELSE IF value = <<>> THEN variable.DefaultValue ELSE value

\* "Use default value if empty", reached whenever no branch above returned
DefaultOrRaw(variable, transform, value) ==
  IF value = <<>> THEN variable.DefaultValue ELSE value

processVariable(s, variable, value, allValues, cfg) ==
  LET r == ResolveTransform(variable, cfg)
      transform == r.transform
  IN
  IF r.err # "" THEN [value |-> <<>>, err |-> r.err]
  ELSE IF variable.Computed /\ transform # Nil /\ Deref(transform).Compose # <<>>
    THEN LET o == RenderTemplate(Deref(transform).Compose, ComposeData(s, variable, allValues))
         IN  [value |-> o.out, err |-> o.err]
  ELSE IF transform # Nil /\ variable.Type = "boolean"
    THEN [value |-> BooleanValue(variable, Deref(transform), value), err |-> ""]
  ELSE IF transform # Nil /\ value = <<>> /\ Deref(transform).EmptyValue # <<>>
    THEN [value |-> Deref(transform).EmptyValue, err |-> ""]
  ELSE IF transform # Nil /\ value # <<>> /\ Deref(transform).ValuePattern # <<>>
    THEN LET o == RenderTemplate(Deref(transform).ValuePattern, PatternData(variable, value))
         IN  [value |-> o.out, err |-> o.err]
  ELSE [value |-> DefaultOrRaw(variable, transform, value), err |-> ""]

----------------------------------------------------------------------------
\* Variable.Validate

Digits == {"0", "1", "2", "3", "4", "5", "6", "7", "8", "9"}

DigitValue == [d \in Digits |-> CHOOSE n \in 0..9 : ToString(n) = d]

RECURSIVE DecimalValue(_)
DecimalValue(ds) ==
  IF ds = <<>> THEN 0
  ELSE 10 * DecimalValue(SubSeq(ds, 1, Len(ds) - 1)) + DigitValue[ds[Len(ds)]]

\* fmt.Sscanf(value, "%d", &num): leading blanks are skipped, one sign is
\* accepted, then the longest run of decimal digits is read; what follows the
\* digits is not looked at.  No digit at that place is an error.
ScanInt(value) ==
  LET blanks == {k \in 0..Len(value) : \A j \in 1..k : value[j] = " "}
      start == (CHOOSE k \in blanks : \A j \in blanks : j <= k) + 1
      signed == start <= Len(value) /\ value[start] \in {"+", "-"}
      first == IF signed THEN start + 1 ELSE start
      runs == {k \in (first - 1)..Len(value) : \A j \in first..k : value[j] \in Digits}
      last == CHOOSE k \in runs : \A j \in runs : j <= k
      magnitude == DecimalValue(SubSeq(value, first, last))
  IN  IF last < first THEN [ok |-> FALSE, num |-> 0]
      ELSE [ok |-> TRUE,
            num |-> IF signed /\ value[start] = "-" THEN 0 - magnitude ELSE magnitude]

\* an opening parenthesis that is never closed: regexp.Compile fails
UnclosedGroup == "("

\* regexp.Compile(pattern) returns no error
RegexCompiles(pattern) == \A k \in 1..Len(pattern) : pattern[k] # UnclosedGroup

\* the element of a pattern matches one character: \d a digit, . any
\* character, every other element itself
RegexElementMatches(e, c) ==
  IF e = "\\d" THEN c \in Digits
  ELSE IF e = "." THEN TRUE
  ELSE e = c

\* regexp.MatchString for a pattern that compiles: the pattern, a sequence of
\* elements with an optional ^ in front and an optional $ at the end, matches
\* some part of the value
RegexMatches(pattern, value) ==
  LET atStart == pattern # <<>> /\ pattern[1] = "^"
      p1 == IF atStart THEN SubSeq(pattern, 2, Len(pattern)) ELSE pattern
      atEnd == p1 # <<>> /\ p1[Len(p1)] = "$"
      body == IF atEnd THEN SubSeq(p1, 1, Len(p1) - 1) ELSE p1
  IN  \E off \in 0..(Len(value) - Len(body)) :
        /\ atStart => off = 0
        /\ atEnd => off + Len(body) = Len(value)
        /\ \A k \in 1..Len(body) : RegexElementMatches(body[k], value[off + k])

\* A plausible slip: the empty value is let through before the options are
\* compared
EnumRuleSkippingEmpty(validation, value) ==
  IF value = <<>> THEN ""
  ELSE IF \E k \in 1..Len(validation.Enum) : value = validation.Enum[k]
    THEN ""
  ELSE "must be one of"

\* the enum rule: the value is one of the options
EnumRule(validation, value) ==
  IF \E k \in 1..Len(validation.Enum) : value = validation.Enum[k]
    THEN ""
  ELSE "must be one of"

\* A plausible slip: the bounds themselves are excluded
RangeRuleExclusive(validation, value) ==
  IF Len(validation.Range) = 2 /\ value # <<>>
    THEN IF ~ScanInt(value).ok THEN "must be a valid number"
         ELSE IF \/ ScanInt(value).num <= validation.Range[1]
                 \/ ScanInt(value).num >= validation.Range[2]
           THEN "must be between"
         ELSE ""
  ELSE ""

\* the range rule: a non-empty value scans as a number within the bounds
RangeRule(validation, value) ==
  IF Len(validation.Range) = 2 /\ value # <<>>
    THEN IF ~ScanInt(value).ok THEN "must be a valid number"
         ELSE IF \/ ScanInt(value).num < validation.Range[1]
                 \/ ScanInt(value).num > validation.Range[2]
           THEN "must be between"
         ELSE ""
  ELSE ""

\* the pattern rule: a non-empty value matches the pattern
PatternRule(validation, value) ==
  IF validation.Pattern # <<>> /\ value # <<>>
    THEN IF ~RegexCompiles(validation.Pattern) THEN "has invalid pattern"
         ELSE IF ~RegexMatches(validation.Pattern, value)
           THEN "does not match required format"
         ELSE ""
  ELSE ""

\* A plausible slip: a matching option goes on to the range and the pattern
ValidateRulesEnumFallsThrough(v, value) ==
  IF v.Validation = Nil THEN ""
  ELSE LET validation == Deref(v.Validation) IN
    IF Len(validation.Enum) > 0 /\ EnumRule(validation, value) # ""
      THEN EnumRule(validation, value)
    ELSE IF RangeRule(validation, value) # "" THEN RangeRule(validation, value)
    ELSE PatternRule(validation, value)

\* A plausible slip: a range that is present ends the validation
ValidateRulesRangeReturns(v, value) ==
  IF v.Validation = Nil THEN ""
  ELSE LET validation == Deref(v.Validation) IN
    IF Len(validation.Enum) > 0 THEN EnumRule(validation, value)
    ELSE IF Len(validation.Range) = 2 /\ value # <<>>
      THEN RangeRule(validation, value)
    ELSE PatternRule(validation, value)

\* the rules of v.Validation: an enum returns; a range that passes goes on to
\* the pattern
ValidateRules(v, value) ==
  IF v.Validation = Nil THEN ""
  ELSE LET validation == Deref(v.Validation) IN
    IF Len(validation.Enum) > 0 THEN EnumRule(validation, value)
    ELSE IF RangeRule(validation, value) # "" THEN RangeRule(validation, value)
    ELSE PatternRule(validation, value)

\* A plausible slip: the required rule is left out
ValidateWithoutRequired(v, value) == ValidateRules(v, value)

\* Validate returns the error it found, "" for nil
Validate(v, value) ==
  IF v.Required /\ value = <<>> THEN "is required"
  ELSE ValidateRules(v, value)

\* tempVar := Variable{Name: v.Name, Type: v.Type, Validation: validation}
TempVar(v, validation) ==
  [Name |-> v.Name,
   DefaultValue |-> <<>>,
   Required |-> FALSE,
   Type |-> v.Type,
   Transform |-> Nil,
   TransformTemplate |-> "",
   Validation |-> validation,
   Computed |-> FALSE]

\* the validation of the type of v in config.VariableTypes
TypeValidation(v, cfg, value) ==
  IF v.Type # "" /\ cfg # Nil /\ v.Type \in DOMAIN Deref(cfg).VariableTypes
    THEN LET varType == Deref(cfg).VariableTypes[v.Type] IN
         IF varType.Validation # Nil
           THEN Validate(TempVar(v, varType.Validation), value)
         ELSE ""
  ELSE ""

\* A plausible slip: the empty value is not kept from the type's rules
ValidateWithConfigOnEmpty(v, value, cfg) ==
  IF Validate(v, value) # "" THEN Validate(v, value)
  ELSE IF v.Type = "regex"
    THEN IF ~RegexCompiles(value) THEN "must be a valid regular expression"
         ELSE ""
  ELSE TypeValidation(v, cfg, value)

\* A plausible slip: a value that compiles goes on to the lookup of the type
ValidateWithConfigRegexLookup(v, value, cfg) ==
  IF Validate(v, value) # "" THEN Validate(v, value)
  ELSE IF value = <<>> THEN ""
  ELSE IF v.Type = "regex" /\ ~RegexCompiles(value)
    THEN "must be a valid regular expression"
  ELSE TypeValidation(v, cfg, value)

\* ValidateWithConfig: cfg is the *Config of the caller
ValidateWithConfig(v, value, cfg) ==
  IF Validate(v, value) # "" THEN Validate(v, value)
  ELSE IF value = <<>> THEN ""
  ELSE IF v.Type = "regex"
    THEN IF ~RegexCompiles(value) THEN "must be a valid regular expression"
         ELSE ""
  ELSE TypeValidation(v, cfg, value)

----------------------------------------------------------------------------
\* The inputs of one ProcessTemplate call

sA == <<"a">>

sB == <<"b">>

NoTransformFields ==
  [EmptyValue |-> <<>>, ValuePattern |-> <<>>, TrueValue |-> <<>>,
   FalseValue |-> <<>>, Compose |-> <<>>]

\* empty_value: "e"
TEmpty == [NoTransformFields EXCEPT !.EmptyValue = <<"e">>]

\* value_pattern: "-{{.Value}}"
TPattern == [NoTransformFields EXCEPT !.ValuePattern = <<"-", "{{.Value}}">>]

\* true_value: "t", false_value: "f"
TBool == [NoTransformFields EXCEPT !.TrueValue = <<"t">>, !.FalseValue = <<"f">>]

\* compose: "{{.a}}/{{if .b}}{{.b}}{{else}}{{.a}}{{end}}"
TCompose ==
  [NoTransformFields EXCEPT
     !.Compose = <<"{{.a}}", "/", "{{if .b}}", "{{.b}}", "{{else}}", "{{.a}}", "{{end}}">>]

\* every field set
TAll ==
  [EmptyValue |-> <<"e">>,
   ValuePattern |-> <<"{{.Value}}", "{{.a}}", "{{.Value}}">>,
   TrueValue |-> <<"t">>,
   FalseValue |-> <<>>,
   Compose |-> <<"{{.b}}", "{{.a}}">>]

\* value_pattern that does not parse, compose that does not execute
TBroken ==
  [NoTransformFields EXCEPT
     !.ValuePattern = <<"-", "{{">>, !.Compose = <<"{{.b}}", "{{.a.x}}">>]

Transforms == {TEmpty, TPattern, TBool, TCompose, TAll, TBroken}

sX == <<"x">>

s7 == <<"7">>

s80 == <<"8", "0">>

s90 == <<"9", "0">>

NoValidationFields == [Pattern |-> <<>>, Enum |-> <<>>, Range |-> <<>>]

\* range: [1, 80]
PortValidation == [NoValidationFields EXCEPT !.Range = <<1, 80>>]

\* enum: ["7", "x"]
LevelValidation == [NoValidationFields EXCEPT !.Enum = <<s7, sX>>]

\* config.TransformTemplates: "nilt" is an entry without a transform;
\* config.VariableTypes: "regex" is a type defined under the name of the
\* built-in one, "plain" a type without validation
TheConfig ==
  [TransformTemplates |->
     [n \in {"tpat", "tbool", "tcomp", "nilt"} |->
        [Description |-> n,
         Transform |-> CASE n = "tpat" -> Ptr([TPattern EXCEPT !.EmptyValue = <<"n">>])
                         [] n = "tbool" -> Ptr([TBool EXCEPT !.TrueValue = <<"y">>])
                         [] n = "tcomp" -> Ptr([TCompose EXCEPT !.Compose = <<"{{.b}}", "{{.a}}">>])
                         [] n = "nilt" -> Nil]],
   VariableTypes |->
     [n \in {"port", "level", "regex", "plain"} |->
        [Description |-> n,
         Validation |-> CASE n = "port" -> Ptr(PortValidation)
                          [] n = "level" -> Ptr(LevelValidation)
                          [] n = "regex" -> Ptr(LevelValidation)
                          [] n = "plain" -> Nil,
         Default |-> IF n = "port" THEN s80 ELSE <<>>,
         Transform |-> Nil]]]

TemplateNames == {"", "tpat", "tbool", "tcomp", "nilt", "missing"}

\* every shape of a variable named a
FullVariables ==
  [Name : {sA},
   DefaultValue : {<<>>, <<"d">>},
   Required : BOOLEAN,
   Type : {"", "boolean"},
   Transform : {Nil} \cup {Ptr(t) : t \in Transforms},
   TransformTemplate : TemplateNames,
   Validation : {Nil},
   Computed : BOOLEAN]

\* the shapes of a variable without transform: typed or not, with or without
\* rules of its own
PlainVariables ==
  [Name : {sA},
   DefaultValue : {<<>>, <<"d">>},
   Required : BOOLEAN,
   Type : {"", "boolean", "port", "level", "undefined"},
   Transform : {Nil},
   TransformTemplate : {""},
   Validation : {Nil, Ptr(PortValidation), Ptr(LevelValidation)},
   Computed : BOOLEAN]

\* the shapes used in snippets of several variables
CoreVariables ==
  [Name : {sA, sB},
   DefaultValue : {<<"d">>},
   Required : {FALSE},
   Type : {""},
   Transform : {Nil, Ptr(TPattern), Ptr(TCompose), Ptr(TBroken)},
   TransformTemplate : {""},
   Validation : {Nil},
   Computed : BOOLEAN]

RECURSIVE SeqsOfLen(_, _)
SeqsOfLen(S, n) ==
  IF n = 0 THEN {<<>>}
  ELSE {Append(q, x) : q \in SeqsOfLen(S, n - 1), x \in S}

VariableLists ==
  {<<>>} \cup {<<v>> : v \in FullVariables \cup PlainVariables}
    \cup UNION {SeqsOfLen(CoreVariables, n) : n \in 2..MaxVars}

\* "<a><a>", "<a>-<b>", "<<a>b>"
Commands ==
  {<<"<", "a", ">", "<", "a", ">">>,
   <<"<", "a", ">", "-", "<", "b", ">">>,
   <<"<", "<", "a", ">", "b", ">">>}

RawA == {<<>>, <<"x">>, sTrue, sYes, sOne, <<"T", "r", "u", "e">>, <<"<", "b", ">">>}

\* the raw values of a in snippets of several variables, where no variable
\* is a boolean
RawACore == {<<>>, <<"x">>, <<"<", "b", ">">>}

RawB == {<<>>, <<"y">>}

\* the raw values of the caller: nil, or a map on some of the names
RawValueMaps(rawA) ==
  {Nil} \cup
    {Ptr(m) : m \in {f \in UNION {[D -> rawA \cup RawB] : D \in SUBSET {sA, sB}} :
                       \A n \in DOMAIN f : f[n] \in (IF n = sA THEN rawA ELSE RawB)}}

TypeOK ==
  /\ snippet \in [Command : Commands, Variables : VariableLists]
  /\ pc \in {"start", "loop", "done"}
  /\ i \in 1..(MaxVars + 1)

Init ==
  /\ snippet \in [Command : Commands, Variables : VariableLists]
  /\ values \in RawValueMaps(IF Len(snippet.Variables) > 1 THEN RawACore ELSE RawA)
  /\ config = TheConfig
  /\ pc = "start"
  /\ i = 1
  /\ command = <<>>
  /\ processedValue = <<>>
  /\ result = <<>>
  /\ err = Nil
  /\ checked = Nil
  /\ input = <<>>
  /\ vconfig = Nil
  /\ call = "none"
  /\ verr = ""
  /\ kept = Nil
  /\ firstReturn = Nil
  /\ calls = 1
  /\ fields = <<>>
  /\ focusIndex = 0
  /\ done = FALSE
  /\ cancelled = FALSE
  /\ window = <<0, 0>>
  /\ msg = "none"
  /\ xpc = "idle"
  /\ ask = 1
  /\ rejected = 0
  /\ mode = "PrintOnly"
  /\ confirm = Nil
  /\ printed = Nil
  /\ executed = Nil
  /\ ret = Nil

----------------------------------------------------------------------------
\* ProcessTemplate

\* A plausible slip: the working string is kept in a place that outlives the
\* call and is set up only when it is empty
EnterResuming ==
  /\ pc = "start"
  /\ command' = IF command = <<>> THEN snippet.Command ELSE command
  /\ i' = 1
  /\ pc' = "loop"
  /\ UNCHANGED <<extVars, valVars, snippet, values, config, processedValue, result, err>>

\* command := s.Command
Enter ==
  /\ pc = "start"
  /\ command' = snippet.Command
  /\ i' = 1
  /\ pc' = "loop"
  /\ UNCHANGED <<extVars, valVars, snippet, values, config, processedValue, result, err>>

\* A plausible slip: on an error the working string is returned
IterateReturningPartial ==
  /\ pc = "loop"
  /\ i <= Len(snippet.Variables)
  /\ LET variable == snippet.Variables[i]
         placeholder == Placeholder(variable.Name)
         value == MapGet(values, variable.Name)
         r == processVariable(snippet, variable, value, values, config)
     IN  IF r.err # ""
           THEN /\ result' = command
                /\ err' = Ptr([variable |-> variable.Name, cause |-> r.err])
                /\ pc' = "done"
                /\ UNCHANGED <<command, processedValue, i>>
           ELSE /\ processedValue' = r.value
                /\ command' = ReplaceAll(command, placeholder, r.value)
                /\ i' = i + 1
                /\ UNCHANGED <<pc, result, err>>
  /\ UNCHANGED <<extVars, valVars, snippet, values, config>>

\* A plausible slip: the variables are taken last-declared first
IterateLastFirst ==
  /\ pc = "loop"
  /\ i <= Len(snippet.Variables)
  /\ LET variable == snippet.Variables[Len(snippet.Variables) + 1 - i]
         placeholder == Placeholder(variable.Name)
         value == MapGet(values, variable.Name)
         r == processVariable(snippet, variable, value, values, config)
     IN  IF r.err # ""
           THEN /\ result' = <<>>
                /\ err' = Ptr([variable |-> variable.Name, cause |-> r.err])
                /\ pc' = "done"
                /\ UNCHANGED <<command, processedValue, i>>
           ELSE /\ processedValue' = r.value
                /\ command' = ReplaceAll(command, placeholder, r.value)
                /\ i' = i + 1
                /\ UNCHANGED <<pc, result, err>>
  /\ UNCHANGED <<extVars, valVars, snippet, values, config>>

\* one iteration of "for _, variable := range s.Variables"
Iterate ==
  /\ pc = "loop"
  /\ i <= Len(snippet.Variables)
  /\ LET variable == snippet.Variables[i]
         placeholder == Placeholder(variable.Name)
         value == MapGet(values, variable.Name)
         r == processVariable(snippet, variable, value, values, config)
     IN  IF r.err # ""
           THEN /\ result' = <<>>
                /\ err' = Ptr([variable |-> variable.Name, cause |-> r.err])
                /\ pc' = "done"
                /\ UNCHANGED <<command, processedValue, i>>
           ELSE /\ processedValue' = r.value
                /\ command' = ReplaceAll(command, placeholder, r.value)
                /\ i' = i + 1
                /\ UNCHANGED <<pc, result, err>>
  /\ UNCHANGED <<extVars, valVars, snippet, values, config>>

\* A plausible slip: the result is stored in the snippet (s.Command = command)
ReturnStoringCommand ==
  /\ pc = "loop"
  /\ i > Len(snippet.Variables)
  /\ result' = command
  /\ err' = Nil
  /\ pc' = "done"
  /\ snippet' = [snippet EXCEPT !.Command = command]
  /\ UNCHANGED <<extVars, valVars, values, config, i, command, processedValue>>

\* A plausible slip: what is left of the placeholders is filled from the map
ReturnFillingSupplied ==
  /\ pc = "loop"
  /\ i > Len(snippet.Variables)
  /\ result' = ReplaceAll(ReplaceAll(command, Placeholder(sA), MapGet(values, sA)),
                          Placeholder(sB), MapGet(values, sB))
  /\ err' = Nil
  /\ pc' = "done"
  /\ UNCHANGED <<extVars, valVars, snippet, values, config, i, command, processedValue>>

\* return command, nil
Return ==
  /\ pc = "loop"
  /\ i > Len(snippet.Variables)
  /\ result' = command
  /\ err' = Nil
  /\ pc' = "done"
  /\ UNCHANGED <<extVars, valVars, snippet, values, config, i, command, processedValue>>

Next == Enter \/ Iterate \/ Return

Spec == Init /\ [][Next]_vars

----------------------------------------------------------------------------
\* Validate and ValidateWithConfig

\* pattern "^7", a pattern that does not compile; enum ["x", "90"], an enum
\* listing the empty string; range [1, 80], a range of one element
Validations ==
  [Pattern : {<<>>, <<"^", "7">>, <<UnclosedGroup>>},
   Enum : {<<>>, <<sX, s90>>, <<<<>>, sX>>},
   Range : {<<>>, <<1>>, <<1, 80>>}]

TypeNames == {"", "regex", "port", "level", "plain", "undefined"}

\* the variables handed to the validation
ValidatedVariables ==
  [Name : {sA},
   DefaultValue : {<<>>},
   Required : BOOLEAN,
   Type : TypeNames,
   Transform : {Nil},
   TransformTemplate : {""},
   Validation : {Nil} \cup {Ptr(x) : x \in Validations},
   Computed : {FALSE}]

\* "", "x", "0", "1", "7", "80", "81", "90", "-1", "8x", " 7", "("
Inputs ==
  {<<>>, sX, <<"0">>, sOne, s7, s80, <<"8", "1">>, s90, <<"-", "1">>,
   <<"8", "x">>, <<" ", "7">>, <<UnclosedGroup>>}

InitValidate ==
  /\ checked \in ValidatedVariables
  /\ input \in Inputs
  /\ config = TheConfig
  /\ vconfig = Nil
  /\ call = "none"
  /\ verr = ""
  /\ snippet = [Command |-> <<>>, Variables |-> <<>>]
  /\ values = Nil
  /\ pc = "idle"
  /\ i = 1
  /\ command = <<>>
  /\ processedValue = <<>>
  /\ result = <<>>
  /\ err = Nil
  /\ kept = Nil
  /\ firstReturn = Nil
  /\ calls = 1
  /\ fields = <<>>
  /\ focusIndex = 0
  /\ done = FALSE
  /\ cancelled = FALSE
  /\ window = <<0, 0>>
  /\ msg = "none"
  /\ xpc = "idle"
  /\ ask = 1
  /\ rejected = 0
  /\ mode = "PrintOnly"
  /\ confirm = Nil
  /\ printed = Nil
  /\ executed = Nil
  /\ ret = Nil

\* err := v.Validate(value)
CallValidate ==
  /\ call = "none"
  /\ call' = "Validate"
  /\ verr' = Validate(checked, input)
  /\ UNCHANGED <<checked, input, vconfig>>
  /\ UNCHANGED <<extVars, snippet, values, config, pc, i, command, processedValue, result, err>>

\* err := v.ValidateWithConfig(value, config), config nil or not
CallValidateWithConfig ==
  /\ call = "none"
  /\ \E cfg \in {Nil, Ptr(config)} :
       /\ vconfig' = cfg
       /\ verr' = ValidateWithConfig(checked, input, cfg)
  /\ call' = "ValidateWithConfig"
  /\ UNCHANGED <<checked, input>>
  /\ UNCHANGED <<extVars, snippet, values, config, pc, i, command, processedValue, result, err>>

NextValidate == CallValidate \/ CallValidateWithConfig

SpecValidate == InitValidate /\ [][NextValidate]_vars

----------------------------------------------------------------------------
\* A caller that resolves a snippet of two variables several times, with the
\* raw values of its first call or with others, and validates the raw value
\* of the first variable at any moment

\* "<a>" and "<b>" as raw values: placeholder text that enters the working
\* string through a resolved value
RepeatValues ==
  {Nil} \cup
    {Ptr(m) : m \in
       {f \in UNION {[D -> {<<>>, sX, Placeholder(sA), Placeholder(sB)}] :
                       D \in SUBSET {sA, sB}} :
          \A n \in DOMAIN f :
            f[n] \in (IF n = sA THEN {<<>>, sX, Placeholder(sB)}
                      ELSE {<<>>, Placeholder(sA), Placeholder(sB)})}}

\* the raw values of the calls in between
OtherValues == Ptr([n \in {sA, sB} |-> IF n = sA THEN <<"y">> ELSE sX])

\* a variable named a, then a variable named b
RepeatVariableLists ==
  {<<va, vb>> : va \in {v \in CoreVariables : v.Name = sA},
                vb \in {v \in CoreVariables : v.Name = sB}}

InitRepeat ==
  /\ snippet \in [Command : Commands, Variables : RepeatVariableLists]
  /\ values \in RepeatValues
  /\ config = TheConfig
  /\ pc = "start"
  /\ i = 1
  /\ command = <<>>
  /\ processedValue = <<>>
  /\ result = <<>>
  /\ err = Nil
  /\ checked = snippet.Variables[1]
  /\ input = MapGet(values, snippet.Variables[1].Name)
  /\ vconfig = Nil
  /\ call = "none"
  /\ verr = ""
  /\ kept = values
  /\ firstReturn = Nil
  /\ calls = 1
  /\ fields = <<>>
  /\ focusIndex = 0
  /\ done = FALSE
  /\ cancelled = FALSE
  /\ window = <<0, 0>>
  /\ msg = "none"
  /\ xpc = "idle"
  /\ ask = 1
  /\ rejected = 0
  /\ mode = "PrintOnly"
  /\ confirm = Nil
  /\ printed = Nil
  /\ executed = Nil
  /\ ret = Nil

\* the caller notes what its first call returned and calls ProcessTemplate
\* again, on the same snippet and config, with the raw values of the first
\* call or with others
CallAgain ==
  /\ pc = "done"
  /\ calls < MaxCalls
  /\ firstReturn' = IF firstReturn = Nil
                      THEN Ptr([result |-> result, err |-> err, between |-> FALSE])
                      ELSE Ptr([firstReturn[1] EXCEPT !.between = @ \/ values # kept])
  /\ values' \in {kept, OtherValues}
  /\ calls' = calls + 1
  /\ pc' = "start"
  /\ i' = 1
  /\ call' = "none"
  /\ verr' = ""
  /\ UNCHANGED <<snippet, config, command, processedValue, result, err,
                 checked, input, vconfig, kept, formVars, execVars>>

NextRepeat ==
  \/ Enter
  \/ Iterate
  \/ Return
  \/ CallValidate
  \/ CallValidateWithConfig
  \/ CallAgain

SpecRepeat == InitRepeat /\ [][NextRepeat]_vars

----------------------------------------------------------------------------
\* The variable form: newFormModel and formModel.Update

sFalse == <<"f", "a", "l", "s", "e">>

\* the field of a variable: the default, "false" for a boolean without
\* default, the preset value if there is one; a field with options takes
\* the option that equals its value, or else the first option
NewField(variable, presetValues) ==
  LET enumOptions ==
        IF variable.Type = "boolean" THEN <<sFalse, sTrue>>
        ELSE IF variable.Validation # Nil /\ Len(Deref(variable.Validation).Enum) > 0
          THEN Deref(variable.Validation).Enum
        ELSE <<>>
      initial ==
        IF variable.Type = "boolean" /\ variable.DefaultValue = <<>> THEN sFalse
        ELSE variable.DefaultValue
      preset == presetValues # Nil /\ variable.Name \in DOMAIN Deref(presetValues)
      value == IF preset THEN Deref(presetValues)[variable.Name] ELSE initial
      hits == {k \in 1..Len(enumOptions) : enumOptions[k] = value}
      enumIndex == IF hits = {} THEN 0
                   ELSE (CHOOSE k \in hits : \A j \in hits : k <= j) - 1
  IN  [variable |-> variable,
       value |-> IF Len(enumOptions) > 0 THEN enumOptions[enumIndex + 1] ELSE value,
       cursorPos |-> IF preset THEN Len(value)
                     ELSE IF Len(variable.DefaultValue) > Len(initial) THEN Len(initial)
                     ELSE Len(variable.DefaultValue),
       errorMessage |-> "",
       enumIndex |-> enumIndex,
       enumOptions |-> enumOptions]

\* one field for each variable that is not computed, in declaration order
RECURSIVE NewFields(_, _)
NewFields(variables, presetValues) ==
  IF variables = <<>> THEN <<>>
  ELSE IF Head(variables).Computed THEN NewFields(Tail(variables), presetValues)
  ELSE <<NewField(Head(variables), presetValues)>> \o NewFields(Tail(variables), presetValues)

PlainVariable ==
  [Name |-> sA, DefaultValue |-> <<>>, Required |-> FALSE, Type |-> "",
   Transform |-> Nil, TransformTemplate |-> "", Validation |-> Nil, Computed |-> FALSE]

\* a required port number with range [1, 80]; a text of type level
TextVariables ==
  {[PlainVariable EXCEPT !.Required = TRUE, !.Validation = Ptr(PortValidation)],
   [PlainVariable EXCEPT !.Type = "level"]}

\* an enum [7, x] with default x; a boolean; a boolean with default true
OptionVariables ==
  {[PlainVariable EXCEPT !.Name = sB, !.DefaultValue = sX,
                         !.Validation = Ptr(LevelValidation)],
   [PlainVariable EXCEPT !.Name = sB, !.Type = "boolean"],
   [PlainVariable EXCEPT !.Name = sB, !.Type = "boolean", !.DefaultValue = sTrue]}

ComputedVariable ==
  [PlainVariable EXCEPT !.Name = <<"c">>, !.Computed = TRUE, !.Transform = Ptr(TCompose)]

\* snippets with at least one variable that is not computed: the form is
\* not shown for others
FormVariableLists ==
  {<<v>> : v \in TextVariables \cup OptionVariables}
    \cup {<<va, ComputedVariable, vb>> : va \in TextVariables, vb \in OptionVariables}

\* the --set values: none, or 7 or 90 for a and x or 90 for b
PresetValues ==
  {Nil} \cup
    {Ptr(m) : m \in {f \in UNION {[D -> {s7, sX, s90}] : D \in SUBSET {sA, sB}} :
                       \A n \in DOMAIN f :
                         f[n] \in (IF n = sA THEN {s7, s90} ELSE {sX, s90})}}

\* width and height of the terminal
WindowSizes == {<<120, 40>>}

Characters == {"7", "x"}

InitForm ==
  /\ snippet \in [Command : {<<"<", "a", ">", "-", "<", "b", ">">>}, Variables : FormVariableLists]
  /\ values \in PresetValues
  /\ config = TheConfig
  /\ fields = NewFields(snippet.Variables, values)
  /\ focusIndex = 0
  /\ done = FALSE
  /\ cancelled = FALSE
  /\ window = <<80, 0>>
  /\ msg = "none"
  /\ xpc = "idle"
  /\ ask = 1
  /\ rejected = 0
  /\ mode = "PrintOnly"
  /\ confirm = Nil
  /\ printed = Nil
  /\ executed = Nil
  /\ ret = Nil
  /\ pc = "idle"
  /\ i = 1
  /\ command = <<>>
  /\ processedValue = <<>>
  /\ result = <<>>
  /\ err = Nil
  /\ checked = Nil
  /\ input = <<>>
  /\ vconfig = Nil
  /\ call = "none"
  /\ verr = ""
  /\ kept = Nil
  /\ firstReturn = Nil
  /\ calls = 1

\* the program runs until Update returns tea.Quit
Running == ~done /\ ~cancelled

currentField == fields[focusIndex + 1]

isEnum == Len(currentField.enumOptions) > 0

\* the fields with the focused one replaced
WithCurrent(f) == [fields EXCEPT ![focusIndex + 1] = f]

\* the fields with the cursor of the k-th, a text field, at its end
WithCursorAtEnd(k) ==
  IF Len(fields[k].enumOptions) = 0
    THEN [fields EXCEPT ![k].cursorPos = Len(fields[k].value)]
    ELSE fields

\* the rest of the state, which Update has no access to
formRest == <<ptVars, valVars, repVars, execVars>>

\* tea.WindowSizeMsg
Resize ==
  /\ Running
  /\ \E size \in WindowSizes : window' = size
  /\ msg' = "size"
  /\ UNCHANGED <<fields, focusIndex, done, cancelled, formRest>>

\* "ctrl+c", "esc"
PressEsc ==
  /\ Running
  /\ cancelled' = TRUE
  /\ msg' = "esc"
  /\ UNCHANGED <<fields, focusIndex, done, window, formRest>>

\* "tab", "down"
PressTab ==
  /\ Running
  /\ focusIndex' = IF focusIndex + 1 >= Len(fields) THEN 0 ELSE focusIndex + 1
  /\ fields' = WithCursorAtEnd(focusIndex' + 1)
  /\ msg' = "tab"
  /\ UNCHANGED <<done, cancelled, window, formRest>>

\* "shift+tab", "up"
PressShiftTab ==
  /\ Running
  /\ focusIndex' = IF focusIndex - 1 < 0 THEN Len(fields) - 1 ELSE focusIndex - 1
  /\ fields' = WithCursorAtEnd(focusIndex' + 1)
  /\ msg' = "shift+tab"
  /\ UNCHANGED <<done, cancelled, window, formRest>>

\* "left"
PressLeft ==
  /\ Running
  /\ fields' =
       IF isEnum
         THEN IF currentField.enumIndex > 0
                THEN WithCurrent([currentField EXCEPT
                       !.enumIndex = @ - 1,
                       !.value = currentField.enumOptions[currentField.enumIndex]])
                ELSE fields
         ELSE IF currentField.cursorPos > 0
                THEN WithCurrent([currentField EXCEPT !.cursorPos = @ - 1])
                ELSE fields
  /\ msg' = "left"
  /\ UNCHANGED <<focusIndex, done, cancelled, window, formRest>>

\* "right"
PressRight ==
  /\ Running
  /\ fields' =
       IF isEnum
         THEN IF currentField.enumIndex < Len(currentField.enumOptions) - 1
                THEN WithCurrent([currentField EXCEPT
                       !.enumIndex = @ + 1,
                       !.value = currentField.enumOptions[currentField.enumIndex + 2]])
                ELSE fields
         ELSE IF currentField.cursorPos < Len(currentField.value)
                THEN WithCurrent([currentField EXCEPT !.cursorPos = @ + 1])
                ELSE fields
  /\ msg' = "right"
  /\ UNCHANGED <<focusIndex, done, cancelled, window, formRest>>

\* "backspace"
PressBackspace ==
  /\ Running
  /\ fields' =
       IF ~isEnum /\ currentField.cursorPos > 0
         THEN WithCurrent([currentField EXCEPT
                !.value = SubSeq(@, 1, currentField.cursorPos - 1)
                            \o SubSeq(@, currentField.cursorPos + 1, Len(@)),
                !.cursorPos = @ - 1])
         ELSE fields
  /\ msg' = "backspace"
  /\ UNCHANGED <<focusIndex, done, cancelled, window, formRest>>

\* "ctrl+x"
PressCtrlX ==
  /\ Running
  /\ fields' =
       IF ~isEnum
         THEN WithCurrent([currentField EXCEPT !.value = <<>>, !.cursorPos = 0])
         ELSE fields
  /\ msg' = "ctrl+x"
  /\ UNCHANGED <<focusIndex, done, cancelled, window, formRest>>

\* a single character; a field that is MaxLen long is typed into no further
TypeCharacter ==
  /\ Running
  /\ isEnum \/ Len(currentField.value) < MaxLen
  /\ \E c \in Characters :
       fields' =
         IF ~isEnum
           THEN WithCurrent([currentField EXCEPT
                  !.value = SubSeq(@, 1, currentField.cursorPos) \o <<c>>
                              \o SubSeq(@, currentField.cursorPos + 1, Len(@)),
                  !.cursorPos = @ + 1])
           ELSE fields
  /\ msg' = "character"
  /\ UNCHANGED <<focusIndex, done, cancelled, window, formRest>>

\* the fields after "Validate all fields before submitting"
ValidatedFields ==
  [k \in 1..Len(fields) |->
     [fields[k] EXCEPT
        !.errorMessage = ValidateWithConfig(fields[k].variable, fields[k].value, Ptr(config))]]

\* A plausible slip: only the focused field is validated on submission
PressEnterCheckingFocused ==
  /\ Running
  /\ IF focusIndex = Len(fields) - 1
       THEN /\ fields' = WithCurrent(ValidatedFields[focusIndex + 1])
            /\ done' = (ValidatedFields[focusIndex + 1].errorMessage = "")
            /\ UNCHANGED focusIndex
       ELSE /\ focusIndex' = focusIndex + 1
            /\ UNCHANGED <<fields, done>>
  /\ msg' = "enter"
  /\ UNCHANGED <<cancelled, window, formRest>>

\* "enter": submit on the last field, otherwise move to the next
PressEnter ==
  /\ Running
  /\ IF focusIndex = Len(fields) - 1
       THEN /\ fields' = ValidatedFields
            /\ done' = \A k \in 1..Len(fields) : ValidatedFields[k].errorMessage = ""
            /\ UNCHANGED focusIndex
       ELSE /\ focusIndex' = focusIndex + 1
            /\ UNCHANGED <<fields, done>>
  /\ msg' = "enter"
  /\ UNCHANGED <<cancelled, window, formRest>>

NextForm ==
  \/ Resize
  \/ PressEsc
  \/ PressTab
  \/ PressShiftTab
  \/ PressLeft
  \/ PressRight
  \/ PressBackspace
  \/ PressCtrlX
  \/ TypeCharacter
  \/ PressEnter

SpecForm == InitForm /\ [][NextForm]_vars

----------------------------------------------------------------------------
\* ExecuteWithMode: promptForVariables, ProcessTemplate, then the mode

\* PrintOnly, AutoExecute, PromptExecute, and a value that is none of them
Modes == {"PrintOnly", "AutoExecute", "PromptExecute", "unknown"}

\* a required port number; a boolean with true_value/false_value; a text
\* with default d and a value_pattern that does not parse; a boolean whose
\* enum admits neither true nor false
AskedVariableLists ==
  LET port == [PlainVariable EXCEPT !.Required = TRUE, !.Validation = Ptr(PortValidation)]
      flag == [PlainVariable EXCEPT !.Name = sB, !.Type = "boolean", !.Transform = Ptr(TBool)]
      broken == [PlainVariable EXCEPT !.Name = sB, !.DefaultValue = <<"d">>,
                                      !.Transform = Ptr(TBroken)]
      never == [PlainVariable EXCEPT !.Name = sB, !.Type = "boolean",
                                     !.Validation = Ptr(LevelValidation)]
  IN  {<<>>, <<ComputedVariable>>, <<port>>}
        \cup {<<port, ComputedVariable, vb>> : vb \in {flag, broken, never}}

\* what the user types at an input prompt
TextAnswers == {<<>>, s7, sX}

\* the values promptForVariable can return for a variable: true or false
\* for a boolean, one of the options for an enum, else the text typed, the
\* default standing in for an empty text
Answers(variable) ==
  IF variable.Type = "boolean" THEN {sTrue, sFalse}
  ELSE IF variable.Validation # Nil /\ Len(Deref(variable.Validation).Enum) > 0
    THEN {Deref(variable.Validation).Enum[k] :
            k \in 1..Len(Deref(variable.Validation).Enum)}
  ELSE {IF t = <<>> THEN variable.DefaultValue ELSE t : t \in TextAnswers}

\* values[name] = value
MapPut(m, name, value) ==
  Ptr([n \in DOMAIN Deref(m) \cup {name} |-> IF n = name THEN value ELSE Deref(m)[n]])

\* strings.Fields(command) is empty
IsBlank(s) == \A k \in 1..Len(s) : s[k] = " "

InitExecute ==
  /\ snippet \in [Command : {<<"<", "a", ">", "-", "<", "b", ">">>},
                   Variables : AskedVariableLists]
  /\ mode \in Modes
  /\ config = TheConfig
  /\ values = Ptr(<<>>)
  /\ xpc = "prompting"
  /\ ask = 1
  /\ rejected = 0
  /\ confirm = Nil
  /\ printed = Nil
  /\ executed = Nil
  /\ ret = Nil
  /\ pc = "idle"
  /\ i = 1
  /\ command = <<>>
  /\ processedValue = <<>>
  /\ result = <<>>
  /\ err = Nil
  /\ checked = Nil
  /\ input = <<>>
  /\ vconfig = Nil
  /\ call = "none"
  /\ verr = ""
  /\ kept = Nil
  /\ firstReturn = Nil
  /\ calls = 1
  /\ fields = <<>>
  /\ focusIndex = 0
  /\ done = FALSE
  /\ cancelled = FALSE
  /\ window = <<0, 0>>
  /\ msg = "none"

\* what a step of promptForVariables or of the mode switch leaves alone
execRest == <<snippet, config, pc, i, command, processedValue, result, err,
              valVars, repVars, formVars>>

Asking == xpc = "prompting" /\ ask <= Len(snippet.Variables)

\* "Skip computed variables"
SkipComputed ==
  /\ Asking
  /\ snippet.Variables[ask].Computed
  /\ ask' = ask + 1
  /\ UNCHANGED <<values, xpc, rejected, mode, confirm, printed, executed, ret, execRest>>

\* promptForVariable returns an error: no terminal, or the prompt failed
PromptError ==
  /\ Asking
  /\ ~snippet.Variables[ask].Computed
  /\ ret' = Ptr("prompt")
  /\ xpc' = "returned"
  /\ UNCHANGED <<values, ask, rejected, mode, confirm, printed, executed, execRest>>

\* the user interrupts the prompt: os.Exit(0)
PromptCancelled ==
  /\ Asking
  /\ ~snippet.Variables[ask].Computed
  /\ xpc' = "exited"
  /\ UNCHANGED <<values, ask, rejected, mode, confirm, printed, executed, ret, execRest>>

\* A plausible slip: the rejected answer is stored and the loop moves on
AnswerRejectedKept ==
  /\ Asking
  /\ ~snippet.Variables[ask].Computed
  /\ rejected < MaxRejected
  /\ \E value \in Answers(snippet.Variables[ask]) :
       /\ ValidateWithConfig(snippet.Variables[ask], value, Ptr(config)) # ""
       /\ values' = MapPut(values, snippet.Variables[ask].Name, value)
  /\ rejected' = rejected + 1
  /\ ask' = ask + 1
  /\ UNCHANGED <<xpc, mode, confirm, printed, executed, ret, execRest>>

\* the answer fails ValidateWithConfig: "Please try again."
AnswerRejected ==
  /\ Asking
  /\ ~snippet.Variables[ask].Computed
  /\ rejected < MaxRejected
  /\ \E value \in Answers(snippet.Variables[ask]) :
       ValidateWithConfig(snippet.Variables[ask], value, Ptr(config)) # ""
  /\ rejected' = rejected + 1
  /\ UNCHANGED <<values, ask, xpc, mode, confirm, printed, executed, ret, execRest>>

\* "Valid input - store it and move to next variable"
AnswerAccepted ==
  /\ Asking
  /\ ~snippet.Variables[ask].Computed
  /\ \E value \in Answers(snippet.Variables[ask]) :
       /\ ValidateWithConfig(snippet.Variables[ask], value, Ptr(config)) = ""
       /\ values' = MapPut(values, snippet.Variables[ask].Name, value)
  /\ ask' = ask + 1
  /\ UNCHANGED <<xpc, rejected, mode, confirm, printed, executed, ret, execRest>>

\* return values, nil; command, err := snippet.ProcessTemplate(values, p.config)
CallProcessTemplate ==
  /\ xpc = "prompting"
  /\ ask > Len(snippet.Variables)
  /\ xpc' = "processing"
  /\ pc' = "start"
  /\ UNCHANGED <<snippet, values, config, i, command, processedValue, result, err,
                 valVars, repVars, formVars,
                 ask, rejected, mode, confirm, printed, executed, ret>>

Processed0 == xpc = "processing" /\ pc = "done"

\* ProcessTemplate returned an error
ProcessFailed ==
  /\ Processed0
  /\ err # Nil
  /\ ret' = Ptr("processing")
  /\ xpc' = "returned"
  /\ UNCHANGED <<values, ask, rejected, mode, confirm, printed, executed, execRest>>

\* case PrintOnly
PrintCommand ==
  /\ Processed0
  /\ err = Nil
  /\ mode = "PrintOnly"
  /\ printed' = Ptr(result)
  /\ ret' = Ptr("")
  /\ xpc' = "returned"
  /\ UNCHANGED <<values, ask, rejected, mode, confirm, executed, execRest>>

\* case AutoExecute: executeCommand runs the command unless it is blank
AutoExecuteCommand ==
  /\ Processed0
  /\ err = Nil
  /\ mode = "AutoExecute"
  /\ IF IsBlank(result)
       THEN executed' = Nil /\ ret' = Ptr("empty command")
       ELSE executed' = Ptr(result) /\ ret' \in {Ptr(""), Ptr("run")}
  /\ xpc' = "returned"
  /\ UNCHANGED <<values, ask, rejected, mode, confirm, printed, execRest>>

\* A plausible slip: the answer to the confirmation is not looked at
ConfirmAndExecuteAnyway ==
  /\ Processed0
  /\ err = Nil
  /\ mode = "PromptExecute"
  /\ \E outcome \in {"no terminal", "cancelled", "failed", "no", "yes"} :
       CASE outcome = "no terminal" ->
              /\ ret' = Ptr("cannot access terminal")
              /\ xpc' = "returned"
              /\ UNCHANGED <<confirm, executed>>
         [] outcome = "cancelled" ->
              /\ xpc' = "exited"
              /\ UNCHANGED <<confirm, executed, ret>>
         [] outcome = "failed" ->
              /\ ret' = Ptr("confirm")
              /\ xpc' = "returned"
              /\ UNCHANGED <<confirm, executed>>
         [] outcome \in {"no", "yes"} ->
              /\ confirm' = Ptr(outcome = "yes")
              /\ xpc' = "returned"
              /\ IF IsBlank(result)
                   THEN executed' = Nil /\ ret' = Ptr("empty command")
                   ELSE executed' = Ptr(result) /\ ret' \in {Ptr(""), Ptr("run")}
  /\ UNCHANGED <<values, ask, rejected, mode, printed, execRest>>

\* case PromptExecute: no terminal, the prompt is interrupted or fails, or
\* the user answers "Execute this command?"
ConfirmAndExecute ==
  /\ Processed0
  /\ err = Nil
  /\ mode = "PromptExecute"
  /\ \E outcome \in {"no terminal", "cancelled", "failed", "no", "yes"} :
       CASE outcome = "no terminal" ->
              /\ ret' = Ptr("cannot access terminal")
              /\ xpc' = "returned"
              /\ UNCHANGED <<confirm, executed>>
         [] outcome = "cancelled" ->
              /\ xpc' = "exited"
              /\ UNCHANGED <<confirm, executed, ret>>
         [] outcome = "failed" ->
              /\ ret' = Ptr("confirm")
              /\ xpc' = "returned"
              /\ UNCHANGED <<confirm, executed>>
         [] outcome = "no" ->
              /\ confirm' = Ptr(FALSE)
              /\ ret' = Ptr("")
              /\ xpc' = "returned"
              /\ UNCHANGED executed
         [] outcome = "yes" ->
              /\ confirm' = Ptr(TRUE)
              /\ xpc' = "returned"
              /\ IF IsBlank(result)
                   THEN executed' = Nil /\ ret' = Ptr("empty command")
                   ELSE executed' = Ptr(result) /\ ret' \in {Ptr(""), Ptr("run")}
  /\ UNCHANGED <<values, ask, rejected, mode, printed, execRest>>

\* default: unknown execution mode
UnknownMode ==
  /\ Processed0
  /\ err = Nil
  /\ mode \notin {"PrintOnly", "AutoExecute", "PromptExecute"}
  /\ ret' = Ptr("unknown execution mode")
  /\ xpc' = "returned"
  /\ UNCHANGED <<values, ask, rejected, mode, confirm, printed, executed, execRest>>

NextExecute ==
  \/ SkipComputed
  \/ PromptError
  \/ PromptCancelled
  \/ AnswerRejected
  \/ AnswerAccepted
  \/ CallProcessTemplate
  \/ Enter
  \/ Iterate
  \/ Return
  \/ ProcessFailed
  \/ PrintCommand
  \/ AutoExecuteCommand
  \/ ConfirmAndExecute
  \/ UnknownMode

SpecExecute == InitExecute /\ [][NextExecute]_vars

\* the program takes its steps, and a user who can give a valid answer
\* gives one in the end
SpecExecuteLive ==
  /\ SpecExecute
  /\ WF_vars(SkipComputed)
  /\ SF_vars(AnswerAccepted)
  /\ WF_vars(CallProcessTemplate)

----------------------------------------------------------------------------
\* Vocabulary of the properties

\* the variable of the last completed iteration has been resolved
Processed == i > 1 /\ err = Nil

LastVariable == snippet.Variables[i - 1]

\* the raw value the caller supplied under a name, empty when there is none
Supplied(name) ==
  IF values = Nil THEN <<>>
  ELSE IF name \in DOMAIN values[1] THEN values[1][name] ELSE <<>>

NamedTransformMissing(v) ==
  v.TransformTemplate # "" /\ v.TransformTemplate \notin DOMAIN config.TransformTemplates

\* the transform the variable is resolved with (nil when a named one is missing)
ChosenTransform(v) ==
  IF v.TransformTemplate # ""
    THEN IF NamedTransformMissing(v) THEN Nil
         ELSE config.TransformTemplates[v.TransformTemplate].Transform
    ELSE v.Transform

ResolvedByCompose(v) ==
  v.Computed /\ ChosenTransform(v) # Nil /\ ChosenTransform(v)[1].Compose # <<>>

\* s with every occurrence of old, found from left to right, replaced by new
RECURSIVE EveryOccurrenceReplaced(_, _, _, _)
EveryOccurrenceReplaced(s, pos, old, new) ==
  IF pos > Len(s) THEN <<>>
  ELSE IF pos + Len(old) - 1 <= Len(s) /\ SubSeq(s, pos, pos + Len(old) - 1) = old
    THEN new \o EveryOccurrenceReplaced(s, pos + Len(old), old, new)
    ELSE <<s[pos]>> \o EveryOccurrenceReplaced(s, pos + 1, old, new)

----------------------------------------------------------------------------
\* C1: ProcessTemplate starts from the snippet's command, takes the variables
\* in declaration order and, when a variable resolves, replaces every
\* occurrence of <name> in the working string by the resolved value; it
\* returns the working string left by the last variable, and the command
\* itself when the snippet has no variables.
C1_EveryOccurrenceInOrder ==
  [][/\ pc = "start" => command' = snippet.Command /\ i' = 1
     /\ (pc = "loop" /\ pc' = "loop") =>
          /\ i <= Len(snippet.Variables)
          /\ i' = i + 1
          /\ command' = EveryOccurrenceReplaced(
                          command, 1,
                          <<"<">> \o snippet.Variables[i].Name \o <<">">>,
                          processedValue')
     /\ (pc' = "done" /\ err' = Nil) =>
          /\ i > Len(snippet.Variables)
          /\ result' = command
          /\ (snippet.Variables = <<>> => result' = snippet.Command)]_vars

\* "<a><a>" with a resolved to "x" has become "xx"
C1_Witness ==
  /\ pc = "done"
  /\ err = Nil
  /\ snippet.Command = <<"<", "a", ">", "<", "a", ">">>
  /\ Len(snippet.Variables) = 1
  /\ processedValue = <<"x">>
  /\ result = <<"x", "x">>

C3_Original ==
  Processed =>
    LET v == LastVariable
        tr == ChosenTransform(v)
    IN  (/\ v.Type # "boolean"
         /\ ~v.Computed
         /\ tr # Nil
         /\ tr[1].EmptyValue = <<>>
         /\ Supplied(v.Name) = <<>>) => processedValue = <<>>

\* C3, amended: a non-boolean, non-computed variable with a transform that
\* has no empty_value resolves an empty raw value to its default value (the
\* empty string only when it has no default): the default fallback is also
\* reached with a transform present.
C3_EmptyFallsBackToDefault ==
  Processed =>
    LET v == LastVariable
        tr == ChosenTransform(v)
    IN  (/\ v.Type # "boolean"
         /\ ~v.Computed
         /\ tr # Nil
         /\ tr[1].EmptyValue = <<>>
         /\ Supplied(v.Name) = <<>>) => processedValue = v.DefaultValue

\* value_pattern only, default "d", empty raw value: resolved to "d"
C3_Witness ==
  /\ Processed
  /\ LastVariable.Type # "boolean"
  /\ ~LastVariable.Computed
  /\ LastVariable.Transform = <<TPattern>>
  /\ LastVariable.TransformTemplate = ""
  /\ LastVariable.DefaultValue = <<"d">>
  /\ Supplied(LastVariable.Name) = <<>>
  /\ processedValue = <<"d">>

C5_BooleanTrueFalse ==
  Processed =>
    LET v == LastVariable
        raw == Supplied(v.Name)
        tr == ChosenTransform(v)
    IN  (v.Type = "boolean" /\ tr # Nil /\ ~ResolvedByCompose(v)) =>
          processedValue =
            IF raw = <<"t", "r", "u", "e">> \/ raw = <<"y", "e", "s">> \/ raw = <<"1">>
              THEN tr[1].TrueValue
              ELSE tr[1].FalseValue

\* raw "True" is falsy: false_value "f", not true_value "t"
C5_Witness ==
  /\ Processed
  /\ LastVariable.Type = "boolean"
  /\ ~ResolvedByCompose(LastVariable)
  /\ ChosenTransform(LastVariable) = <<TBool>>
  /\ Supplied(LastVariable.Name) = <<"T", "r", "u", "e">>
  /\ processedValue = <<"f">>

\* C6, as stated: a boolean variable with no transform resolves to the empty
\* string for every raw value.
C6_Original ==
  (/\ Processed
   /\ LastVariable.Type = "boolean"
   /\ LastVariable.TransformTemplate = ""
   /\ LastVariable.Transform = Nil) => processedValue = <<>>

\* C6, amended: a boolean variable with no transform is resolved like any
\* variable with no transform: to the raw value when it is non-empty, to the
\* default when it is empty.
C6_BooleanWithoutTransform ==
  (/\ Processed
   /\ LastVariable.Type = "boolean"
   /\ LastVariable.TransformTemplate = ""
   /\ LastVariable.Transform = Nil) =>
       processedValue =
         IF Supplied(LastVariable.Name) = <<>> THEN LastVariable.DefaultValue
         ELSE Supplied(LastVariable.Name)

\* boolean, no transform, raw "yes": resolved to "yes"
C6_Witness ==
  /\ Processed
  /\ LastVariable.Type = "boolean"
  /\ LastVariable.TransformTemplate = ""
  /\ LastVariable.Transform = Nil
  /\ Supplied(LastVariable.Name) = <<"y", "e", "s">>
  /\ processedValue = <<"y", "e", "s">>

\* C7: a variable with a non-empty transformTemplate uses the transform stored
\* under that name in config.TransformTemplates, and processing fails with
\* 'transform template not found' when there is no such entry, inline
\* transform or not; with an empty transformTemplate the inline transform is
\* used.
C7_TransformChoice ==
  /\ (pc = "done" /\ err # Nil) =>
       /\ err[1].variable = snippet.Variables[i].Name
       /\ err[1].cause = "transform template not found"
            <=> NamedTransformMissing(snippet.Variables[i])
  /\ Processed =>
       LET v == LastVariable
           tr == IF v.TransformTemplate # ""
                   THEN config.TransformTemplates[v.TransformTemplate].Transform
                   ELSE v.Transform
       IN  /\ ~NamedTransformMissing(v)
           /\ (tr # Nil /\ ~(v.Computed /\ tr[1].Compose # <<>>)) =>
                /\ v.Type = "boolean" =>
                     processedValue \in {tr[1].TrueValue, tr[1].FalseValue}
                /\ (/\ v.Type # "boolean"
                    /\ Supplied(v.Name) = <<>>
                    /\ tr[1].EmptyValue # <<>>) => processedValue = tr[1].EmptyValue

\* a missing named template fails although an inline transform is present
C7_Witness ==
  /\ pc = "done"
  /\ err # Nil
  /\ err[1].cause = "transform template not found"
  /\ snippet.Variables[i].TransformTemplate = "missing"
  /\ snippet.Variables[i].Transform = <<TEmpty>>
  /\ result = <<>>

\* C8: a computed variable whose transform has a non-empty compose resolves
\* to compose rendered against the whole raw-value map of the caller, whatever
\* its own raw entry, its type and its position among the variables.
C8_ComposeOverRawMap ==
  (Processed /\ ResolvedByCompose(LastVariable)) =>
      processedValue =
        RenderTemplate(ChosenTransform(LastVariable)[1].Compose, values).out

\* a computed a, declared before b, has resolved to "x/y" from the raw a and b
C8_Witness ==
  /\ pc = "loop"
  /\ Processed
  /\ i = 2
  /\ Len(snippet.Variables) = 2
  /\ LastVariable.Name = <<"a">>
  /\ snippet.Variables[2].Name = <<"b">>
  /\ LastVariable.Computed
  /\ LastVariable.Transform = <<TCompose>>
  /\ Supplied(<<"a">>) = <<"x">>
  /\ Supplied(<<"b">>) = <<"y">>
  /\ processedValue = <<"x", "/", "y">>

RequiredAndEmpty(v) == v.Required /\ Supplied(v.Name) = <<>>

\* C10, as stated: with a required variable whose raw value is empty,
\* ProcessTemplate fails (with a required-missing error) and returns no
\* command.
C10_Original ==
  \A k \in 1..Len(snippet.Variables) :
    (pc = "done" /\ RequiredAndEmpty(snippet.Variables[k])) =>
      /\ err # Nil
      /\ result = <<>>

\* C10, amended: a required variable with an empty raw value is rejected by
\* Validate with a required error; ProcessTemplate never checks the required
\* flag: it reports no required-missing error, resolves the variable like one
\* that is not required (to its default when it has no transform) and returns
\* the substituted command.
C10_RequiredCheckedByValidateOnly ==
  \A k \in 1..Len(snippet.Variables) :
    LET v == snippet.Variables[k] IN
    RequiredAndEmpty(v) =>
      /\ Validate(v, Supplied(v.Name)) = "is required"
      /\ (pc = "done" /\ err # Nil) =>
           err[1].cause \in {"transform template not found", "template parse", "template exec"}
      /\ (Processed /\ k = i - 1 /\ v.TransformTemplate = "" /\ v.Transform = Nil) =>
           processedValue = v.DefaultValue
      /\ (/\ pc = "done"
          /\ \A j \in 1..Len(snippet.Variables) :
               /\ snippet.Variables[j].TransformTemplate = ""
               /\ snippet.Variables[j].Transform = Nil) =>
           /\ err = Nil
           /\ Len(snippet.Variables) = 1 =>
                result = EveryOccurrenceReplaced(
                           snippet.Command, 1, <<"<">> \o v.Name \o <<">">>, v.DefaultValue)

\* required a with default "d" and no raw value: "<a><a>" is returned as "dd"
C10_Witness ==
  /\ pc = "done"
  /\ err = Nil
  /\ Len(snippet.Variables) = 1
  /\ snippet.Variables[1].Required
  /\ snippet.Variables[1].TransformTemplate = ""
  /\ snippet.Variables[1].Transform = Nil
  /\ snippet.Variables[1].DefaultValue = <<"d">>
  /\ Supplied(<<"a">>) = <<>>
  /\ snippet.Command = <<"<", "a", ">", "<", "a", ">">>
  /\ result = <<"d", "d">>

\* processing the variable fails: its named transform is missing, or the
\* compose resp. value_pattern expression it is resolved with does not parse
\* or does not render
Fails(v) ==
  \/ NamedTransformMissing(v)
  \/ /\ ResolvedByCompose(v)
     /\ RenderTemplate(ChosenTransform(v)[1].Compose, values).err # ""
  \/ /\ ~ResolvedByCompose(v)
     /\ ChosenTransform(v) # Nil
     /\ v.Type # "boolean"
     /\ Supplied(v.Name) # <<>>
     /\ ChosenTransform(v)[1].ValuePattern # <<>>
     /\ RenderTemplate(ChosenTransform(v)[1].ValuePattern,
                       <<[k \in {sValue} |-> Supplied(v.Name)]>>).err # ""

\* C11: when processing of a variable fails, ProcessTemplate stops at the
\* first such variable in declaration order, returns the empty string and an
\* error naming that variable; it returns without error only when no variable
\* fails.
C11_StopsAtFirstFailure ==
  pc = "done" =>
    IF err # Nil
      THEN /\ i <= Len(snippet.Variables)
           /\ Fails(snippet.Variables[i])
           /\ \A j \in 1..(i - 1) : ~Fails(snippet.Variables[j])
           /\ err[1].variable = snippet.Variables[i].Name
           /\ result = <<>>
      ELSE \A j \in 1..Len(snippet.Variables) : ~Fails(snippet.Variables[j])

\* the second variable fails after the first has been substituted: nothing
\* of the working string is returned
C11_Witness ==
  /\ pc = "done"
  /\ err # Nil
  /\ i = 2
  /\ Len(snippet.Variables) = 2
  /\ command # snippet.Command
  /\ command # <<>>
  /\ err[1].variable = snippet.Variables[2].Name
  /\ result = <<>>

----------------------------------------------------------------------------
\* Validation claims, stated on a finished call of Validate or
\* ValidateWithConfig

Validated == call = "Validate"

ValidatedWithConfig == call = "ValidateWithConfig"

Accepted == verr = ""

\* the rules of the variable that was checked; without a Validation there
\* is none
Rules == IF checked.Validation = Nil THEN NoValidationFields ELSE checked.Validation[1]

HasEnum == Rules.Enum # <<>>

HasRange == Len(Rules.Range) = 2

HasPattern == Rules.Pattern # <<>>

Listed(options, x) == \E k \in 1..Len(options) : options[k] = x

\* C12: with a non-empty enum the outcome of Validate is decided by the
\* required rule and by membership in the options alone; no range or pattern
\* error is returned, whether the value is listed or not.
C12_EnumAlone ==
  (Validated /\ HasEnum) =>
    verr = IF checked.Required /\ input = <<>> THEN "is required"
           ELSE IF Listed(Rules.Enum, input) THEN ""
           ELSE "must be one of"

\* a listed option that is above the range and does not match the pattern is
\* accepted
C12_Witness ==
  /\ Validated
  /\ HasEnum /\ HasRange /\ HasPattern
  /\ input = s90
  /\ Listed(Rules.Enum, input)
  /\ Rules.Range[2] = 80
  /\ Rules.Pattern = <<"^", "7">>
  /\ Accepted

\* the values that are, in their entirety, an integer literal, each with the
\* integer it denotes
Denotes ==
  {<<<<"0">>, 0>>, <<sOne, 1>>, <<s7, 7>>, <<s80, 80>>, <<<<"8", "1">>, 81>>,
   <<s90, 90>>, <<<<"-", "1">>, 0 - 1>>}

IsLiteral(x) == \E d \in Denotes : d[1] = x

Denoted(x) == (CHOOSE d \in Denotes : d[1] = x)[2]

WithinRange(n) == Rules.Range[1] <= n /\ n <= Rules.Range[2]

\* the pattern of the rules, if there is one, compiles and matches x
PatternAccepts(x) ==
  HasPattern => (RegexCompiles(Rules.Pattern) /\ RegexMatches(Rules.Pattern, x))

\* C13 as stated: with a two-element range and no enum, a value denoting n
\* is accepted exactly when min <= n <= max, and the empty value is accepted.
C13_Original ==
  (Validated /\ HasRange /\ ~HasEnum) =>
    /\ IsLiteral(input) => (Accepted <=> WithinRange(Denoted(input)))
    /\ (input = <<>> /\ ~checked.Required) => Accepted

\* C13: with a two-element range and no enum, a value denoting n below min or
\* above max is rejected as out of range; one with min <= n <= max, the
\* bounds included, passes the range and is accepted exactly when the
\* pattern, if any, accepts it; the empty value meets no range check and is
\* rejected only by the required rule.
C13_InclusiveRange ==
  (Validated /\ HasRange /\ ~HasEnum) =>
    /\ (IsLiteral(input) /\ ~WithinRange(Denoted(input))) => verr = "must be between"
    /\ (IsLiteral(input) /\ WithinRange(Denoted(input))) =>
         /\ verr \notin {"must be between", "must be a valid number"}
         /\ Accepted <=> PatternAccepts(input)
    /\ input = <<>> => (Accepted <=> ~checked.Required)

\* the upper bound itself is accepted
C13_Witness ==
  /\ Validated
  /\ HasRange /\ ~HasEnum
  /\ input = s80
  /\ Denoted(input) = Rules.Range[2]
  /\ Accepted

\* C14: with a two-element range and no enum, every non-empty value that is
\* not an integer literal in its entirety is rejected, digits followed by
\* other characters included.
C14_WholeValueIsNumber ==
  (Validated /\ HasRange /\ ~HasEnum /\ input # <<>> /\ ~IsLiteral(input)) =>
    ~Accepted

\* the value passes the range that is present
PassesRange == HasRange /\ IsLiteral(input) /\ WithinRange(Denoted(input))

\* C15 as stated: without an enum, a non-empty value that passes the range
\* is accepted without being matched against the pattern.
C15_Original ==
  (Validated /\ ~HasEnum /\ PassesRange) => Accepted

\* C15: an enum ends the validation, a range does not: without an enum, a
\* non-empty value that passes the range is still matched against the
\* pattern of the same Validation, and is rejected when the pattern does not
\* compile or does not match.
C15_PatternAfterRange ==
  (Validated /\ ~HasEnum /\ PassesRange /\ HasPattern) =>
    verr = IF ~RegexCompiles(Rules.Pattern) THEN "has invalid pattern"
           ELSE IF ~RegexMatches(Rules.Pattern, input)
             THEN "does not match required format"
           ELSE ""

\* 80 is within [1, 80] and is rejected by the pattern ^7
C15_Witness ==
  /\ Validated
  /\ ~HasEnum
  /\ PassesRange
  /\ input = s80
  /\ Rules.Pattern = <<"^", "7">>
  /\ verr = "does not match required format"

\* C16 as stated: for a variable that is not required, the empty value is
\* accepted whatever the rules.
C16_Original ==
  (Validated /\ ~checked.Required /\ input = <<>>) => Accepted

\* C16: for a variable that is not required, the range and pattern rules
\* never reject the empty value, but a non-empty enum does unless it lists
\* the empty string.
C16_EmptyValue ==
  (Validated /\ ~checked.Required /\ input = <<>>) =>
    verr = IF HasEnum /\ ~Listed(Rules.Enum, <<>>) THEN "must be one of" ELSE ""

\* the empty value is accepted under a range and a pattern, no enum
C16_Witness ==
  /\ Validated
  /\ ~checked.Required
  /\ input = <<>>
  /\ HasRange /\ HasPattern /\ ~HasEnum
  /\ Accepted

\* the variable names a type of the config handed in, and that type carries
\* Validation rules
TypeHasRules ==
  /\ vconfig # Nil
  /\ checked.Type \in DOMAIN vconfig[1].VariableTypes
  /\ vconfig[1].VariableTypes[checked.Type].Validation # Nil

\* the variable's own local validation accepts x
LocalPass(x) == Validate(checked, x) = ""

\* a validation using only the rules of the type accepts x
TypePass(x) ==
  Validate([checked EXCEPT
              !.Required = FALSE,
              !.Validation = vconfig[1].VariableTypes[checked.Type].Validation],
           x) = ""

\* C17 as stated: for a type other than regex that carries rules,
\* ValidateWithConfig succeeds exactly when the local pass and the pass over
\* the type's rules both accept, for every value, the empty string included.
C17_Original ==
  (ValidatedWithConfig /\ checked.Type # "regex" /\ TypeHasRules) =>
    (Accepted <=> (LocalPass(input) /\ TypePass(input)))

\* C17: for a type other than regex that carries rules, ValidateWithConfig
\* accepts a non-empty value exactly when the local pass and an independent
\* pass over the type's rules both accept it; the empty value is decided by
\* the local pass alone and never reaches the type's rules.
C17_TwoPasses ==
  (ValidatedWithConfig /\ checked.Type # "regex" /\ TypeHasRules) =>
    /\ input # <<>> => (Accepted <=> (LocalPass(input) /\ TypePass(input)))
    /\ input = <<>> => (Accepted <=> LocalPass(input))
    /\ ~LocalPass(input) => verr = Validate(checked, input)

\* 90 is an option of the variable's own enum and is rejected by the range
\* of the type
C17_Witness ==
  /\ ValidatedWithConfig
  /\ checked.Type = "port"
  /\ TypeHasRules
  /\ input = s90
  /\ HasEnum
  /\ LocalPass(input)
  /\ verr = "must be between"

\* C18: for the type regex, ValidateWithConfig returns the error of the local
\* validation if there is one, else rejects a value that does not compile as
\* a regular expression and accepts one that does; a type named regex in
\* config.VariableTypes is never consulted.
C18_RegexType ==
  (ValidatedWithConfig /\ checked.Type = "regex") =>
    verr = IF ~LocalPass(input) THEN Validate(checked, input)
           ELSE IF RegexCompiles(input) THEN ""
           ELSE "must be a valid regular expression"

\* 80 compiles and is accepted although the type named regex of the config
\* lists other options only
C18_Witness ==
  /\ ValidatedWithConfig
  /\ checked.Type = "regex"
  /\ TypeHasRules
  /\ input = s80
  /\ ~TypePass(input)
  /\ Accepted

----------------------------------------------------------------------------
\* Typed variables in ProcessTemplate

\* the variable has no transform: none of its own and none by name
NoTransform(v) == v.TransformTemplate = "" /\ v.Transform = Nil

\* C19: a variable naming a type of config.VariableTypes, with no default of
\* its own, no transform and an empty raw value, resolves to the default of
\* the type.
C19_TypeDefaultInherited ==
  (/\ Processed
   /\ LastVariable.Type \in DOMAIN config.VariableTypes
   /\ LastVariable.DefaultValue = <<>>
   /\ NoTransform(LastVariable)
   /\ Supplied(LastVariable.Name) = <<>>) =>
    processedValue = config.VariableTypes[LastVariable.Type].Default

\* C20: a variable with no transform and a non-empty raw value resolves to
\* the raw value exactly, whatever its type, default, required flag or
\* validation rules.
C20_RawPassesThrough ==
  (/\ Processed
   /\ NoTransform(LastVariable)
   /\ Supplied(LastVariable.Name) # <<>>) =>
    processedValue = Supplied(LastVariable.Name)

\* a required variable of type port with a default and a range of its own:
\* the raw value x, which its rules would reject, is the resolved value
C20_Witness ==
  /\ Processed
  /\ NoTransform(LastVariable)
  /\ LastVariable.Type = "port"
  /\ LastVariable.Required
  /\ LastVariable.DefaultValue = <<"d">>
  /\ LastVariable.Validation = Ptr(PortValidation)
  /\ Supplied(LastVariable.Name) = sX
  /\ processedValue = sX

----------------------------------------------------------------------------
\* Properties of two resolutions

\* the truthiness class of a raw value
Truthy(x) == x \in {sTrue, sYes, sOne}

\* the raw-value map of the caller with the entry of name set to x
SuppliedWith(name, x) ==
  Ptr([n \in (IF values = Nil THEN {} ELSE DOMAIN values[1]) \cup {name} |->
         IF n = name THEN x ELSE values[1][n]])

\* the resolution of variable v had its raw value been x, all else equal
ResolvedWith(v, x) ==
  processVariable(snippet, v, x, SuppliedWith(v.Name, x), config)

\* C21 as stated: for every boolean variable, raw values of the same
\* truthiness class give the same resolved value.
C21_Original ==
  (Processed /\ LastVariable.Type = "boolean") =>
    \A x \in RawA :
      (Truthy(x) <=> Truthy(Supplied(LastVariable.Name))) =>
        ResolvedWith(LastVariable, x) = [value |-> processedValue, err |-> ""]

\* C21: for a boolean variable that is resolved with a transform, and not
\* by a compose expression, raw values of the same truthiness class give the
\* same resolved value.
C21_ClassDecides ==
  (/\ Processed
   /\ LastVariable.Type = "boolean"
   /\ ChosenTransform(LastVariable) # Nil
   /\ ~ResolvedByCompose(LastVariable)) =>
    \A x \in RawA :
      (Truthy(x) <=> Truthy(Supplied(LastVariable.Name))) =>
        ResolvedWith(LastVariable, x) = [value |-> processedValue, err |-> ""]

\* the raw value True is not truthy and resolves to the false_value f, as
\* the raw value x would
C21_Witness ==
  /\ Processed
  /\ LastVariable.Type = "boolean"
  /\ ChosenTransform(LastVariable) = Ptr(TBool)
  /\ Supplied(LastVariable.Name) = <<"T", "r", "u", "e">>
  /\ processedValue = <<"f">>
  /\ ResolvedWith(LastVariable, sX).value = processedValue

\* C22: a ProcessTemplate call with the snippet, raw-value map and config of
\* the caller's first call returns the command and the error of that first
\* call, whatever was called in between.
C22_SameInputsSameReturn ==
  (pc = "done" /\ firstReturn # Nil /\ values = kept) =>
    /\ result = firstReturn[1].result
    /\ err = firstReturn[1].err

\* the third call repeats the first after a call with other raw values
C22_Witness ==
  /\ pc = "done"
  /\ calls = MaxCalls
  /\ firstReturn # Nil
  /\ firstReturn[1].between
  /\ values = kept
  /\ kept # OtherValues
  /\ result # <<>>
  /\ result = firstReturn[1].result

\* C23: no step of ProcessTemplate, Validate or ValidateWithConfig changes
\* the config, the snippet, the raw-value map or the validated variable and
\* value; only the caller hands in another map.
C23_InputsUnchanged ==
  [][CallAgain \/ UNCHANGED <<snippet, values, config, checked, input>>]_vars

\* a resolution has failed and a validation with the config has been made
C23_Witness ==
  /\ pc = "done"
  /\ err # Nil
  /\ call = "ValidateWithConfig"
  /\ vconfig = Ptr(config)
  /\ values = kept
  /\ calls = 1

----------------------------------------------------------------------------
\* Placeholders

\* the number of occurrences of old in s, counted from left to right
RECURSIVE Count(_, _)
Count(s, old) ==
  IF Index(s, old) < 0 THEN 0
  ELSE 1 + Count(SubSeq(s, Index(s, old) + Len(old) + 1, Len(s)), old)

Declared(name) == \E k \in 1..Len(snippet.Variables) : snippet.Variables[k].Name = name

\* C24: a placeholder of the command for which the snippet declares no
\* variable is still in the output, whether or not the raw-value map has an
\* entry under its name; without any declared variable the output is the
\* command itself.
C24_UndeclaredStaysLiteral ==
  (pc = "done" /\ err = Nil) =>
    /\ \A n \in {sA, sB} :
         ~Declared(n) => Count(result, Placeholder(n)) >= Count(snippet.Command, Placeholder(n))
    /\ snippet.Variables = <<>> => result = snippet.Command

\* <b> is still in the output although the map has a non-empty entry for b
C24_Witness ==
  /\ pc = "done"
  /\ err = Nil
  /\ ~Declared(sB)
  /\ Declared(sA)
  /\ Supplied(sB) # <<>>
  /\ Count(snippet.Command, Placeholder(sB)) = 1
  /\ Count(result, Placeholder(sB)) = 1
  /\ result # snippet.Command

\* the rules for a variable that is not computed, applied to its raw value
NonComputedValue(v) ==
  LET t == ChosenTransform(v)
      raw == Supplied(v.Name)
  IN  IF t # Nil /\ v.Type = "boolean"
        THEN IF Truthy(raw) THEN t[1].TrueValue ELSE t[1].FalseValue
      ELSE IF t # Nil /\ raw = <<>> /\ t[1].EmptyValue # <<>>
        THEN t[1].EmptyValue
      ELSE IF t # Nil /\ raw # <<>> /\ t[1].ValuePattern # <<>>
        THEN RenderTemplate(t[1].ValuePattern, <<[k \in {sValue} |-> raw]>>).out
      ELSE IF raw = <<>> THEN v.DefaultValue
      ELSE raw

\* C25: a computed variable whose transform is absent or has an empty
\* compose is resolved by the rules for a variable that is not computed,
\* applied to its own raw value; being computed is no cause of an error.
C25_ComputedWithoutCompose ==
  /\ (Processed /\ LastVariable.Computed /\ ~ResolvedByCompose(LastVariable)) =>
       processedValue = NonComputedValue(LastVariable)
  /\ (/\ pc = "done" /\ err # Nil
      /\ snippet.Variables[i].Computed
      /\ ~ResolvedByCompose(snippet.Variables[i])) =>
       err[1].cause \in {"transform template not found", "template parse", "template exec"}

\* a computed variable with a value_pattern and no compose: -x
C25_Witness ==
  /\ Processed
  /\ LastVariable.Computed
  /\ ChosenTransform(LastVariable) = Ptr(TPattern)
  /\ Supplied(LastVariable.Name) = sX
  /\ processedValue = <<"-", "x">>

----------------------------------------------------------------------------
\* Sequential substitution, for a snippet declaring a and then b

Contains(s, old) == Index(s, old) >= 0

\* the resolved value of the k-th declared variable
ValueOf(k) ==
  processVariable(snippet, snippet.Variables[k],
                  MapGet(values, snippet.Variables[k].Name), values, config).value

\* the command with the placeholders of a and b replaced at once: only text
\* of the command itself is looked at
RECURSIVE Simultaneous(_)
Simultaneous(s) ==
  IF s = <<>> THEN <<>>
  ELSE IF Len(s) >= 3 /\ SubSeq(s, 1, 3) = Placeholder(sA)
    THEN ValueOf(1) \o Simultaneous(SubSeq(s, 4, Len(s)))
  ELSE IF Len(s) >= 3 /\ SubSeq(s, 1, 3) = Placeholder(sB)
    THEN ValueOf(2) \o Simultaneous(SubSeq(s, 4, Len(s)))
  ELSE <<Head(s)>> \o Simultaneous(Tail(s))

\* the working string after a has been processed
AfterFirst == EveryOccurrenceReplaced(snippet.Command, 1, Placeholder(sA), ValueOf(1))

Resolved == pc = "done" /\ err = Nil

\* C27 as stated, last part: the output equals the simultaneous substitution
\* only when the resolved value of a does not contain <b>.
C27_Original ==
  (Resolved /\ result = Simultaneous(snippet.Command)) =>
    ~Contains(ValueOf(1), Placeholder(sB))

\* C27: substitution is sequential.  Text <b> that the resolved value of a
\* brings into the working string is replaced when b is processed, so that,
\* b's value bringing no bracket of its own, no <b> is left and the output
\* differs from the simultaneous substitution; text <a> brought in by the
\* resolved value of b stays in the output; and the output equals the
\* simultaneous substitution whenever processing a has brought no new
\* occurrence of <b> into the working string.
C27_Sequential ==
  /\ (/\ Resolved
      /\ Contains(snippet.Command, Placeholder(sA))
      /\ Contains(ValueOf(1), Placeholder(sB))
      /\ \A k \in 1..Len(ValueOf(2)) : ValueOf(2)[k] \notin {"<", ">"}) =>
       /\ ~Contains(result, Placeholder(sB))
       /\ result # Simultaneous(snippet.Command)
  /\ (/\ Resolved
      /\ Contains(ValueOf(2), Placeholder(sA))
      /\ Contains(AfterFirst, Placeholder(sB))) =>
       Contains(result, Placeholder(sA))
  /\ (/\ Resolved
      /\ Count(AfterFirst, Placeholder(sB)) = Count(snippet.Command, Placeholder(sB))) =>
       result = Simultaneous(snippet.Command)

\* <a>-<b> with a resolved to <b> and b to its default d: the output is d-d,
\* the simultaneous substitution would give <b>-d
C27_Witness ==
  /\ Resolved
  /\ snippet.Command = <<"<", "a", ">", "-", "<", "b", ">">>
  /\ ValueOf(1) = Placeholder(sB)
  /\ ValueOf(2) = <<"d">>
  /\ result = <<"d", "-", "d">>
  /\ Simultaneous(snippet.Command) = <<"<", "b", ">", "-", "d">>

----------------------------------------------------------------------------
\* The variable form

\* ValidateWithConfig accepts the value of the field
ValidField(f) == ValidateWithConfig(f.variable, f.value, Ptr(config)) = ""

HasPreset(f) == values # Nil /\ f.variable.Name \in DOMAIN values[1]

PresetOf(f) == values[1][f.variable.Name]

\* the field holds the value the form was opened with
Unedited(f) == f.value = NewField(f.variable, values).value

\* C26: a preset value that fails ValidateWithConfig for its variable is put
\* into the field as it is, and as long as the field is not edited the form
\* does not complete.
C26_PresetValidated ==
  \A k \in 1..Len(fields) :
    (/\ HasPreset(fields[k])
     /\ ValidateWithConfig(fields[k].variable, PresetOf(fields[k]), Ptr(config)) # ""
     /\ Unedited(fields[k])) =>
      /\ fields[k].value = PresetOf(fields[k])
      /\ ~done

LastFocused == focusIndex = Len(fields) - 1

\* what a step of the form may do to done, the focus and the error messages
SubmitRule ==
  /\ (done' /\ ~done) =>
       /\ msg' = "enter"
       /\ LastFocused
       /\ \A k \in 1..Len(fields) : ValidField(fields[k])
       /\ \A k \in 1..Len(fields) : fields'[k] = [fields[k] EXCEPT !.errorMessage = ""]
  /\ (msg' = "enter" /\ ~LastFocused) =>
       /\ focusIndex' = focusIndex + 1
       /\ UNCHANGED <<fields, done, cancelled>>
  /\ (msg' = "enter" /\ LastFocused /\ \E k \in 1..Len(fields) : ~ValidField(fields[k])) =>
       /\ ~done'
       /\ UNCHANGED focusIndex
       /\ \A k \in 1..Len(fields) :
            /\ fields'[k].value = fields[k].value
            /\ fields'[k].errorMessage # "" <=> ~ValidField(fields[k])
  /\ msg' # "enter" => UNCHANGED done

\* C28: done becomes true only by an Enter on the last field when every
\* field is valid, and then no field carries an error message; an Enter on
\* another field only moves the focus; a failed submission leaves done
\* false and puts an error message on exactly the invalid fields; no other
\* message sets done.
C28_DoneOnlyByValidSubmit ==
  /\ [](done => \A k \in 1..Len(fields) :
                  ValidField(fields[k]) /\ fields[k].errorMessage = "")
  /\ [][SubmitRule]_vars

\* a form of two fields is done: 7 was typed into the first, the Enter on
\* the first moved the focus, the Enter on the second submitted
C28_Witness ==
  /\ done
  /\ Len(fields) = 2
  /\ values = Nil
  /\ fields[1].value = s7
  /\ focusIndex = 1
  /\ msg = "enter"

----------------------------------------------------------------------------
\* promptForVariables

\* promptForVariables returned its map: ProcessTemplate was called with it
Prompted == pc # "idle"

\* the names of the variables that are not computed
AskedNames ==
  {snippet.Variables[k].Name :
     k \in {n \in 1..Len(snippet.Variables) : ~snippet.Variables[n].Computed}}

\* the returned map holds a validated value for each variable that is not
\* computed and nothing else
ReturnedMap ==
  Prompted =>
    /\ DOMAIN Deref(values) = AskedNames
    /\ \A k \in 1..Len(snippet.Variables) :
         ~snippet.Variables[k].Computed =>
           ValidateWithConfig(snippet.Variables[k],
                              Deref(values)[snippet.Variables[k].Name],
                              Ptr(config)) = ""

\* the loop moves from one variable to the next one only, past a computed
\* variable without an entry and past another one with an answer that passes
\* ValidateWithConfig; a rejected answer changes neither the variable asked
\* for nor the map
AskRule ==
  /\ ask' # ask =>
       /\ ask <= Len(snippet.Variables)
       /\ ask' = ask + 1
       /\ IF snippet.Variables[ask].Computed
            THEN values' = values
            ELSE /\ snippet.Variables[ask].Name \in DOMAIN Deref(values')
                 /\ values' = MapPut(values, snippet.Variables[ask].Name,
                                     Deref(values')[snippet.Variables[ask].Name])
                 /\ ValidateWithConfig(snippet.Variables[ask],
                                       Deref(values')[snippet.Variables[ask].Name],
                                       Ptr(config)) = ""
  /\ values' # values => ask' # ask
  /\ rejected' # rejected => UNCHANGED <<ask, values>>

\* every variable that is asked for has an answer that passes
ValidAnswersExist ==
  \A k \in 1..Len(snippet.Variables) :
    ~snippet.Variables[k].Computed =>
      \E value \in Answers(snippet.Variables[k]) :
        ValidateWithConfig(snippet.Variables[k], value, Ptr(config)) = ""

\* C29: promptForVariables asks for the variables that are not computed in
\* declaration order and moves on only after an answer that passes
\* ValidateWithConfig, a rejected answer being discarded and the same variable
\* asked again; the returned map holds one validated value for each variable
\* that is not computed and no entry for a computed one; and when each
\* variable has a valid answer that the user gives in the end, the loop ends.
C29_AsksUntilValid ==
  /\ []ReturnedMap
  /\ [][AskRule]_vars
  /\ (ValidAnswersExist ~> ~Asking)

\* the map was returned for three variables, one computed, after a rejected
\* answer
C29_Witness ==
  /\ Prompted
  /\ rejected > 0
  /\ Len(snippet.Variables) = 3
  /\ DOMAIN Deref(values) = {sA, sB}

----------------------------------------------------------------------------
\* ExecuteWithMode

\* C30: ExecuteWithMode runs the command only when promptForVariables and
\* ProcessTemplate both succeeded and the mode is AutoExecute, or
\* PromptExecute with a confirming answer, and what it runs is the command
\* ProcessTemplate returned; in PrintOnly mode, after a declined
\* confirmation, with an unknown mode, and after an error of prompting or of
\* resolution nothing is executed.
C30_ExecutedOnlyWhen ==
  /\ executed # Nil =>
       /\ ask > Len(snippet.Variables)
       /\ pc = "done"
       /\ err = Nil
       /\ executed = Ptr(result)
       /\ \/ mode = "AutoExecute"
          \/ mode = "PromptExecute" /\ confirm = Ptr(TRUE)
  /\ \/ mode \notin {"AutoExecute", "PromptExecute"}
     \/ confirm = Ptr(FALSE)
     \/ err # Nil
     \/ ret \in {Ptr("prompt"), Ptr("processing")}
     => executed = Nil

\* the command was executed after the user confirmed
C30_Witness ==
  /\ executed # Nil
  /\ mode = "PromptExecute"
  /\ confirm = Ptr(TRUE)
  /\ xpc = "returned"

====
